---- MODULE Spec2Model ----
(***************************************************************************)
(* Model of the two search views of src/src/App.js (GuestSearch, Search):  *)
(* the component state (query, results, loading), the asynchronous         *)
(* handleSearch, the price helpers getLowestPrice / prepareChartData and   *)
(* the part of the render that turns a result set into product cards.      *)
(* The session (AuthProvider, ProtectedRoute, Login, the routes) and the    *)
(* ShoppingLists view have specifications of their own over the same       *)
(* variables: SpecAuth and SpecLists.                                      *)
(*                                                                         *)
(* Prices are counted in pence, so that a price is an integer and          *)
(* toFixed(2) is the split of that integer into pounds and pence.          *)
(* A store quotes a product at most once, so the i-th observation of a     *)
(* list carries the i-th store name and a (store, price) record names one  *)
(* observation object of the input array.                                  *)
(***************************************************************************)
EXTENDS Integers, Sequences, FiniteSets, TLC

\* ---------------------------------------------------------------- bounds
MaxObs == 3        \* most observations in one response
MaxPrice == 1      \* largest price, in pence
MaxToasts == 1     \* error notifications counted before submissions stop
MaxQueryLen == 2   \* longest text of the search input
MaxSubmits == 2    \* searches counted by the history of a search view
MaxRenders == 2    \* renders of one result set counted by the history
MaxLogins == 1     \* submissions of the login form
MaxInitLists == 2  \* shopping lists of the user when the view opens
MaxCreates == 1    \* shopping lists created
MaxDeletes == 2    \* deletions confirmed

ProductIds == {"P1", "P2"}
StoreNames == <<"A", "B", "C", "D", "E">>
Chars == {" ", "a"}

\* ------------------------------------------------------------ JS values
\* null / undefined, as seen by the truthiness tests of the code
Null == [null |-> TRUE]

\* a JSON number
Num(n) == [kind |-> "number", v |-> n]

\* a price field that is not a number: a non-numeric string such as "n/a"
\* (ToNumber gives NaN)
Unparseable == [kind |-> "string", v |-> 0]

IsNumber(x) == x.kind = "number"

\* x < y of JavaScript: any comparison with NaN is false
JsLess(x, y) == IsNumber(x) /\ IsNumber(y) /\ x.v < y.v

\* the value Array.prototype.sort uses for the comparator result x - y:
\* a NaN result is treated as +0
JsMinus(x, y) == IF IsNumber(x) /\ IsNumber(y) THEN x.v - y.v ELSE 0

\* Number.prototype.toFixed(2) of a price of p pence: pounds and pence
Abs(n) == IF n < 0 THEN 0 - n ELSE n

ToFixed2(x) ==
  [negative |-> x.v < 0, pounds |-> Abs(x.v) \div 100, pence |-> Abs(x.v) % 100]

\* String.prototype.trim on a string given as a sequence of characters
RECURSIVE TrimStart(_)
TrimStart(s) ==
  IF s = << >> THEN << >>
  ELSE IF Head(s) = " " THEN TrimStart(Tail(s)) ELSE s

RECURSIVE TrimEnd(_)
TrimEnd(s) ==
  IF s = << >> THEN << >>
  ELSE IF s[Len(s)] = " " THEN TrimEnd(SubSeq(s, 1, Len(s) - 1)) ELSE s

Trim(s) == TrimEnd(TrimStart(s))

\* ------------------------------------------------------ price helpers
\* the negation of  !results || !results.prices || !results.prices[productId]
\* (an array, even the empty one, is truthy)
HasPrices(results, productId) ==
  /\ results # Null
  /\ results.prices # Null
  /\ productId \in DOMAIN results.prices

\* the callback with the comparison turned round
GuestSearch_minCallback_greater(min, price) ==
  IF JsLess(min.price, price.price) THEN price ELSE min

GuestSearch_minCallback(min, price) ==
  IF JsLess(price.price, min.price) THEN price ELSE min

\* the callback with <= for <: a later equal price replaces the earlier one
Search_minCallback_lessEq(min, price) ==
  IF JsLess(price.price, min.price) \/ price.price = min.price THEN price ELSE min

Search_minCallback(min, price) ==
  IF JsLess(price.price, min.price) THEN price ELSE min

\* the comparator with its operands swapped
GuestSearch_compare_swapped(a, b) == JsMinus(b.price, a.price)

GuestSearch_compare(a, b) == JsMinus(a.price, b.price)

\* the comparator of the Search view with its operands swapped
Search_compare_swapped(a, b) == JsMinus(b.price, a.price)

Search_compare(a, b) == JsMinus(a.price, b.price)

\* the reduce callback and the sort comparator of view v
minCallback(v, min, price) ==
  IF v = "guest" THEN GuestSearch_minCallback(min, price)
  ELSE Search_minCallback(min, price)

compare(v, a, b) ==
  IF v = "guest" THEN GuestSearch_compare(a, b) ELSE Search_compare(a, b)

\* Array.prototype.reduce(callback, acc) with the callback of view v
RECURSIVE ArrayReduce(_, _, _)
ArrayReduce(v, arr, acc) ==
  IF arr = << >> THEN acc
  ELSE ArrayReduce(v, Tail(arr), minCallback(v, acc, Head(arr)))

\* insertion of x into the sorted array, after every element that does not
\* compare greater than x
RECURSIVE SortInsert(_, _, _)
SortInsert(v, sorted, x) ==
  IF sorted = << >> THEN << x >>
  ELSE IF compare(v, Head(sorted), x) > 0 THEN << x >> \o sorted
  ELSE << Head(sorted) >> \o SortInsert(v, Tail(sorted), x)

\* Array.prototype.sort(comparator) with the comparator of view v: a stable
\* sort (ECMAScript 2019), here the insertion sort.  For a comparator that is
\* not consistent (a NaN price) the order is implementation-defined and this
\* is one permitted order.
RECURSIVE ArraySortFrom(_, _, _)
ArraySortFrom(v, sorted, rest) ==
  IF rest = << >> THEN sorted
  ELSE ArraySortFrom(v, SortInsert(v, sorted, Head(rest)), Tail(rest))

ArraySort(v, arr) == ArraySortFrom(v, << >>, arr)

RECURSIVE ArrayReverse(_)
ArrayReverse(arr) ==
  IF arr = << >> THEN << >> ELSE ArrayReverse(Tail(arr)) \o << Head(arr) >>

\* ------------------------------------------------- GuestSearch helpers
GuestSearch_getLowestPrice(results, productId) ==
  IF ~HasPrices(results, productId) THEN Null
  ELSE LET prices == results.prices[productId] IN
       IF Len(prices) = 0 THEN Null
       ELSE ArrayReduce("guest", prices, prices[1])

\* a sort that does not keep equal prices in input order
GuestSearch_sortedPrices_unstable(prices) ==
  ArraySort("guest", ArrayReverse(prices))

GuestSearch_sortedPrices(prices) == ArraySort("guest", prices)

GuestSearch_chartLabels(prices, sortedPrices) ==
  [i \in 1..Len(sortedPrices) |-> sortedPrices[i].store]

GuestSearch_prepareChartData(results, productId) ==
  IF ~HasPrices(results, productId) THEN Null
  ELSE LET prices == results.prices[productId]
           sortedPrices == GuestSearch_sortedPrices(prices)
       IN [labels |-> GuestSearch_chartLabels(prices, sortedPrices),
           data |-> [i \in 1..Len(sortedPrices) |-> sortedPrices[i].price],
           backgroundColor |->
             [i \in 1..Len(sortedPrices) |-> IF i = 1 THEN "green" ELSE "indigo"]]

\* ------------------------------------------------------ Search helpers
Search_getLowestPrice(results, productId) ==
  IF ~HasPrices(results, productId) THEN Null
  ELSE LET prices == results.prices[productId] IN
       IF Len(prices) = 0 THEN Null
       ELSE ArrayReduce("auth", prices, prices[1])

Search_sortedPrices(prices) == ArraySort("auth", prices)

\* the labels taken from the unsorted array
Search_chartLabels_unsorted(prices, sortedPrices) ==
  [i \in 1..Len(prices) |-> prices[i].store]

Search_chartLabels(prices, sortedPrices) ==
  [i \in 1..Len(sortedPrices) |-> sortedPrices[i].store]

\* a missing entry charted like an empty list
Search_prepareChartData_orEmpty(results, productId) ==
  IF results = Null THEN Null
  ELSE IF ~HasPrices(results, productId)
  THEN [labels |-> << >>, data |-> << >>, backgroundColor |-> << >>]
  ELSE LET prices == results.prices[productId]
           sortedPrices == Search_sortedPrices(prices)
       IN [labels |-> Search_chartLabels(prices, sortedPrices),
           data |-> [i \in 1..Len(sortedPrices) |-> sortedPrices[i].price],
           backgroundColor |->
             [i \in 1..Len(sortedPrices) |-> IF i = 1 THEN "green" ELSE "indigo"]]

Search_prepareChartData(results, productId) ==
  IF ~HasPrices(results, productId) THEN Null
  ELSE LET prices == results.prices[productId]
           sortedPrices == Search_sortedPrices(prices)
       IN [labels |-> Search_chartLabels(prices, sortedPrices),
           data |-> [i \in 1..Len(sortedPrices) |-> sortedPrices[i].price],
           backgroundColor |->
             [i \in 1..Len(sortedPrices) |-> IF i = 1 THEN "green" ELSE "indigo"]]

\* the helper of the mounted view
getLowestPrice(v, results, productId) ==
  IF v = "guest" THEN GuestSearch_getLowestPrice(results, productId)
  ELSE Search_getLowestPrice(results, productId)

prepareChartData(v, results, productId) ==
  IF v = "guest" THEN GuestSearch_prepareChartData(results, productId)
  ELSE Search_prepareChartData(results, productId)

\* ------------------------------------------------------------- render
\* the "Best Price" line of a card; toFixed exists on numbers only
BestPriceLine(lowestPrice) ==
  IF IsNumber(lowestPrice.price)
  THEN [price |-> ToFixed2(lowestPrice.price), store |-> lowestPrice.store]
  ELSE [throws |-> "TypeError"]

GuestSearch_card(results, product) ==
  LET lowestPrice == GuestSearch_getLowestPrice(results, product.id)
      chartData == GuestSearch_prepareChartData(results, product.id)
  IN [key |-> product.id,
      bestPrice |-> IF lowestPrice # Null THEN BestPriceLine(lowestPrice) ELSE Null,
      chart |-> IF chartData # Null THEN chartData ELSE Null]

\* the cards of the priced products only
GuestSearch_cards_pricedOnly(results) ==
  LET Priced(p) == GuestSearch_getLowestPrice(results, p.id) # Null
      priced == SelectSeq(results.products, Priced)
  IN [i \in 1..Len(priced) |-> GuestSearch_card(results, priced[i])]

GuestSearch_cards(results) ==
  [i \in 1..Len(results.products) |-> GuestSearch_card(results, results.products[i])]

\* a submit button that is never disabled
GuestSearch_render_neverDisabled(q, res, ld) ==
  [spinner |-> ld,
   resultsShown |-> res # Null /\ Len(res.products) > 0,
   resultsFor |-> IF res # Null /\ Len(res.products) > 0 THEN q ELSE << >>,
   cards |-> IF res # Null /\ Len(res.products) > 0
             THEN GuestSearch_cards(res) ELSE << >>,
   noProducts |-> res # Null /\ Len(res.products) = 0,
   submitDisabled |-> FALSE]

GuestSearch_render(q, res, ld) ==
  [spinner |-> ld,
   resultsShown |-> res # Null /\ Len(res.products) > 0,
   resultsFor |-> IF res # Null /\ Len(res.products) > 0 THEN q ELSE << >>,
   cards |-> IF res # Null /\ Len(res.products) > 0
             THEN GuestSearch_cards(res) ELSE << >>,
   noProducts |-> res # Null /\ Len(res.products) = 0,
   submitDisabled |-> ld]

\* the best price line guarded by the truthiness of the price itself
Search_card_truthyPrice(results, product) ==
  LET lowestPrice == Search_getLowestPrice(results, product.id)
      chartData == Search_prepareChartData(results, product.id)
  IN [key |-> product.id,
      bestPrice |-> IF lowestPrice # Null /\ lowestPrice.price # Num(0)
                    THEN BestPriceLine(lowestPrice) ELSE Null,
      chart |-> IF chartData # Null THEN chartData ELSE Null]

Search_card(results, product) ==
  LET lowestPrice == Search_getLowestPrice(results, product.id)
      chartData == Search_prepareChartData(results, product.id)
  IN [key |-> product.id,
      bestPrice |-> IF lowestPrice # Null THEN BestPriceLine(lowestPrice) ELSE Null,
      chart |-> IF chartData # Null THEN chartData ELSE Null]

Search_cards(results) ==
  [i \in 1..Len(results.products) |-> Search_card(results, results.products[i])]

\* a submit button that is never disabled
Search_render_neverDisabled(q, res, ld) ==
  [spinner |-> ld,
   resultsShown |-> res # Null /\ Len(res.products) > 0,
   resultsFor |-> IF res # Null /\ Len(res.products) > 0 THEN q ELSE << >>,
   cards |-> IF res # Null /\ Len(res.products) > 0
             THEN Search_cards(res) ELSE << >>,
   noProducts |-> res # Null /\ Len(res.products) = 0,
   submitDisabled |-> FALSE]

Search_render(q, res, ld) ==
  [spinner |-> ld,
   resultsShown |-> res # Null /\ Len(res.products) > 0,
   resultsFor |-> IF res # Null /\ Len(res.products) > 0 THEN q ELSE << >>,
   cards |-> IF res # Null /\ Len(res.products) > 0
             THEN Search_cards(res) ELSE << >>,
   noProducts |-> res # Null /\ Len(res.products) = 0,
   submitDisabled |-> ld]

\* a route without search view shows no search form
NoSearchView ==
  [spinner |-> FALSE, resultsShown |-> FALSE, resultsFor |-> << >>,
   cards |-> << >>, noProducts |-> FALSE, submitDisabled |-> TRUE]

Render(v, q, res, ld) ==
  IF v = "guest" THEN GuestSearch_render(q, res, ld)
  ELSE IF v = "auth" THEN Search_render(q, res, ld)
  ELSE NoSearchView

\* ------------------------------------------------------------- inputs
\* texts of the search input
Queries == UNION {[1..n -> Chars] : n \in 0..MaxQueryLen}

\* prices as the data model has them: non-negative numbers
ValidPrices == {Num(n) : n \in 0..MaxPrice}

\* prices as a malformed payload can carry them
RawPrices == ValidPrices \cup {Num(0 - 1), Unparseable}

\* observation lists of one product, the i-th observation from the i-th store
ObsLists(values) ==
  UNION {{[i \in 1..n |-> [store |-> StoreNames[i], price |-> f[i]]] :
            f \in [1..n -> values]} : n \in 0..MaxObs}

\* the number of observations of the products D in a price mapping
RECURSIVE CountObs(_, _)
CountObs(m, D) ==
  IF D = {} THEN 0
  ELSE LET pid == CHOOSE x \in D : TRUE
       IN Len(m[pid]) + CountObs(m, D \ {pid})

\* the price mapping: sparse, or missing altogether; a response carries at
\* most MaxObs observations
PriceMaps(values) ==
  {m \in UNION {[D -> ObsLists(values)] : D \in SUBSET ProductIds} :
     CountObs(m, DOMAIN m) <= MaxObs} \cup {Null}

\* the matched products in API response order, no id twice
ProductSeqs ==
  UNION {{[i \in 1..n |-> [id |-> f[i]]] :
            f \in {g \in [1..n -> ProductIds] :
                     \A i, j \in 1..n : i # j => g[i] # g[j]}} :
           n \in 0..Cardinality(ProductIds)}

Payloads(values) == [products : ProductSeqs, prices : PriceMaps(values)]

\* ---------------------------------------------- the arrays after a render
\* the input array after prepareChartData: [...prices] is a copy, the sort
\* works on the copy and the array of the state keeps its order
\* prices.sort(...) without the copy
GuestSearch_pricesAfterChart_inPlace(prices) == GuestSearch_sortedPrices(prices)

GuestSearch_pricesAfterChart(prices) == prices

\* prices.reverse() before the copy is sorted
Search_pricesAfterChart_reversed(prices) == ArrayReverse(prices)

Search_pricesAfterChart(prices) == prices

\* the product has a card in the render of the result set
HasCard(res, pid) ==
  \E i \in 1..Len(res.products) : res.products[i].id = pid

\* the result set of the state after a render has called the helpers for
\* every product of results.products
GuestSearch_resultsAfterRender(res) ==
  IF res = Null THEN Null
  ELSE IF res.prices = Null THEN res
  ELSE [res EXCEPT !.prices =
          [pid \in DOMAIN res.prices |->
             IF HasCard(res, pid)
             THEN GuestSearch_pricesAfterChart(res.prices[pid])
             ELSE res.prices[pid]]]

Search_resultsAfterRender(res) ==
  IF res = Null THEN Null
  ELSE IF res.prices = Null THEN res
  ELSE [res EXCEPT !.prices =
          [pid \in DOMAIN res.prices |->
             IF HasCard(res, pid)
             THEN Search_pricesAfterChart(res.prices[pid])
             ELSE res.prices[pid]]]

ResultsAfterRender(v, res) ==
  IF v = "guest" THEN GuestSearch_resultsAfterRender(res)
  ELSE IF v = "auth" THEN Search_resultsAfterRender(res)
  ELSE res

\* -------------------------------------------------------------- state
VARIABLES
  view,         \* the route shown: "guest", "auth" (/search), "login", "home"
  query,        \* useState("") of the search view
  results,      \* useState(null) of the search view
  loading,      \* useState(false) of the search view
  pending,      \* requests awaited by a running handleSearch, oldest first
  toasts,       \* number of toast.error notifications of the search view
  dom,          \* what the last render of the search view returned
  received,     \* history: response.data as it was passed to setResults
  token,        \* localStorage "token", "null" when there is none
  user,         \* useState(null) of AuthProvider, "null" when signed out
  authLoading,  \* useState(true) of AuthProvider
  authPending,  \* requests awaited by fetchUserProfile and login
  logins,       \* number of login submissions
  submitted,    \* history: number of searches submitted
  stored,       \* history: number of responses stored in results
  pendingIds,   \* history: the submission number of each pending request
  storedFrom,   \* history: the submission whose response is in results
  renders,      \* history: renders of the result set in results
  storedQuery,  \* history: params.query of the request answered by results
  lists,        \* useState([]) of ShoppingLists: the ids of the lists shown
  listsLoading, \* useState(true) of ShoppingLists
  listName,     \* useState("") of ShoppingLists
  showCreateForm, \* useState(false) of ShoppingLists
  listToast,    \* the last notification of ShoppingLists
  server,       \* the ids of the lists of the user in the shopping-list store
  listsPending, \* requests awaited by the handlers of ShoppingLists
  creates,      \* history: number of lists whose creation was submitted
  deletes,      \* history: number of deletions confirmed
  fetchFailed   \* history: a fetchLists has failed

searchVars == <<query, results, loading, pending, toasts, dom, received>>
authVars == <<token, user, authLoading, authPending, logins>>
histVars == <<submitted, stored, pendingIds, storedFrom, renders, storedQuery>>
listVars == <<lists, listsLoading, listName, showCreateForm, listToast, server,
              listsPending, creates, deletes, fetchFailed>>
otherVars == <<view, searchVars, authVars, histVars>>
vars == <<view, searchVars, authVars, histVars, listVars>>

\* ProtectedRoute lets the Search view render
SearchMounted(v, ld, u) == v = "guest" \/ (v = "auth" /\ ~ld /\ u # "null")

\* the request handleSearch sends: the guest view sends no Authorization
\* header, the Search view sends `Bearer ${localStorage.getItem("token")}`
SearchRequest(v, q, tok) ==
  IF v = "guest"
  THEN [endpoint |-> "/guest-search", query |-> Trim(q), bearer |-> "no header"]
  ELSE [endpoint |-> "/search", query |-> Trim(q), bearer |-> tok]

\* the array without its i-th element
RemoveAt(arr, i) == [j \in 1..(Len(arr) - 1) |-> IF j < i THEN arr[j] ELSE arr[j + 1]]

InitHistory ==
  /\ submitted = 0
  /\ stored = 0
  /\ pendingIds = << >>
  /\ storedFrom = 0
  /\ renders = 0
  /\ storedQuery = << >>

InitSearch ==
  /\ query = << >>
  /\ results = Null
  /\ loading = FALSE
  /\ pending = << >>
  /\ toasts = 0
  /\ dom = Render(view, << >>, Null, FALSE)
  /\ received = Null

\* no shopping lists view on screen
InitNoLists ==
  /\ server = {}
  /\ lists = << >>
  /\ listsLoading = FALSE
  /\ listName = << >>
  /\ showCreateForm = FALSE
  /\ listToast = "none"
  /\ listsPending = << >>
  /\ creates = 0
  /\ deletes = 0
  /\ fetchFailed = FALSE

\* a search view on screen, the Search view with a signed-in user
Init ==
  /\ view \in {"guest", "auth"}
  /\ token = IF view = "auth" THEN "T0" ELSE "null"
  /\ user = IF view = "auth" THEN "alice" ELSE "null"
  /\ authLoading = FALSE
  /\ authPending = {}
  /\ logins = 0
  /\ InitSearch
  /\ InitHistory
  /\ InitNoLists

\* onChange of the search input
SetQuery(q) ==
  /\ SearchMounted(view, authLoading, user)
  /\ query' = q
  /\ results' = ResultsAfterRender(view, results)
  /\ dom' = Render(view, q, results, loading)
  /\ UNCHANGED <<view, loading, pending, toasts, received, authVars>>

\* handleSearch without setResults(null)
HandleSearch_keepsResults ==
  /\ SearchMounted(view, authLoading, user)
  /\ ~dom.submitDisabled
  /\ Trim(query) # << >>
  /\ toasts < MaxToasts
  /\ loading' = TRUE
  /\ results' = ResultsAfterRender(view, results)
  /\ pending' = Append(pending, SearchRequest(view, query, token))
  /\ dom' = Render(view, query, results, TRUE)
  /\ UNCHANGED <<view, query, toasts, received, authVars>>

\* handleSearch up to the await; the submit button is disabled while loading
HandleSearch ==
  /\ SearchMounted(view, authLoading, user)
  /\ ~dom.submitDisabled
  /\ Trim(query) # << >>
  /\ toasts < MaxToasts
  /\ loading' = TRUE
  /\ results' = Null
  /\ received' = Null
  /\ pending' = Append(pending, SearchRequest(view, query, token))
  /\ dom' = Render(view, query, Null, TRUE)
  /\ UNCHANGED <<view, query, toasts, authVars>>

\* the i-th request resolves: setResults(response.data), then finally
SearchResolved(i, data) ==
  /\ i \in 1..Len(pending)
  /\ results' = ResultsAfterRender(view, data)
  /\ received' = data
  /\ loading' = FALSE
  /\ pending' = RemoveAt(pending, i)
  /\ dom' = Render(view, query, data, FALSE)
  /\ UNCHANGED <<view, query, toasts, authVars>>

\* setLoading(false) at the end of the try block instead of finally
SearchRejected_noFinally(i) ==
  /\ i \in 1..Len(pending)
  /\ toasts' = toasts + 1
  /\ pending' = RemoveAt(pending, i)
  /\ results' = ResultsAfterRender(view, results)
  /\ dom' = Render(view, query, results, loading)
  /\ UNCHANGED <<view, query, loading, received, authVars>>

\* a catch block that only logs
SearchRejected_silent(i) ==
  /\ i \in 1..Len(pending)
  /\ loading' = FALSE
  /\ pending' = RemoveAt(pending, i)
  /\ results' = ResultsAfterRender(view, results)
  /\ dom' = Render(view, query, results, FALSE)
  /\ UNCHANGED <<view, query, toasts, received, authVars>>

\* the i-th request rejects: toast.error, then finally
SearchRejected(i) ==
  /\ i \in 1..Len(pending)
  /\ toasts' = toasts + 1
  /\ loading' = FALSE
  /\ pending' = RemoveAt(pending, i)
  /\ results' = ResultsAfterRender(view, results)
  /\ dom' = Render(view, query, results, FALSE)
  /\ UNCHANGED <<view, query, received, authVars>>

Next ==
  \/ \E q \in Queries : SetQuery(q) /\ UNCHANGED <<histVars, listVars>>
  \/ HandleSearch /\ UNCHANGED <<histVars, listVars>>
  \/ \E i \in 1..Len(pending) : \E data \in Payloads(ValidPrices) :
       SearchResolved(i, data) /\ UNCHANGED <<histVars, listVars>>
  \/ \E i \in 1..Len(pending) : SearchRejected(i) /\ UNCHANGED <<histVars, listVars>>

Spec == Init /\ [][Next]_vars

\* the same views fed by a search provider that sends malformed prices
NextRaw ==
  \/ \E q \in Queries : SetQuery(q) /\ UNCHANGED <<histVars, listVars>>
  \/ HandleSearch /\ UNCHANGED <<histVars, listVars>>
  \/ \E i \in 1..Len(pending) : \E data \in Payloads(RawPrices) :
       SearchResolved(i, data) /\ UNCHANGED <<histVars, listVars>>
  \/ \E i \in 1..Len(pending) : SearchRejected(i) /\ UNCHANGED <<histVars, listVars>>

SpecRaw == Init /\ [][NextRaw]_vars

\* ------------------------------------------- the life of a search view
\* a few responses: no product, a product with tied prices arriving in
\* descending order, a product without price data
SamplePayloads ==
  {[products |-> << >>, prices |-> Null],
   [products |-> << [id |-> "P1"] >>,
    prices |-> [pid \in {"P1"} |->
                  << [store |-> StoreNames[1], price |-> Num(1)],
                     [store |-> StoreNames[2], price |-> Num(1)],
                     [store |-> StoreNames[3], price |-> Num(0)] >>]],
   [products |-> << [id |-> "P2"] >>, prices |-> Null]}

\* the history of a submission
RecordSubmit ==
  /\ submitted < MaxSubmits
  /\ submitted' = submitted + 1
  /\ pendingIds' = Append(pendingIds, submitted + 1)
  /\ storedFrom' = 0
  /\ renders' = 0
  /\ storedQuery' = << >>
  /\ UNCHANGED stored

\* the history of a response stored in results
RecordStore(i) ==
  /\ stored' = stored + 1
  /\ storedFrom' = pendingIds[i]
  /\ pendingIds' = RemoveAt(pendingIds, i)
  /\ renders' = 1
  /\ storedQuery' = pending[i].query
  /\ UNCHANGED submitted

\* the history of a further render
RenderCount == IF results # Null /\ renders < MaxRenders THEN renders + 1 ELSE renders

RecordReject(i) ==
  /\ pendingIds' = RemoveAt(pendingIds, i)
  /\ renders' = RenderCount
  /\ UNCHANGED <<submitted, stored, storedFrom, storedQuery>>

RecordRender ==
  /\ renders' = RenderCount
  /\ UNCHANGED <<submitted, stored, pendingIds, storedFrom, storedQuery>>

\* a pending request completes, one way or the other
Complete ==
  \E i \in 1..Len(pending) :
    \/ \E data \in SamplePayloads :
         SearchResolved(i, data) /\ RecordStore(i) /\ UNCHANGED listVars
    \/ SearchRejected(i) /\ RecordReject(i) /\ UNCHANGED listVars

NextLife ==
  \/ \E q \in Queries : SetQuery(q) /\ RecordRender /\ UNCHANGED listVars
  \/ HandleSearch /\ RecordSubmit /\ UNCHANGED listVars
  \/ \E i \in 1..Len(pending) : \E data \in SamplePayloads :
       SearchResolved(i, data) /\ RecordStore(i) /\ UNCHANGED listVars
  \/ \E i \in 1..Len(pending) :
       SearchRejected(i) /\ RecordReject(i) /\ UNCHANGED listVars

SpecLife == Init /\ [][NextLife]_vars

\* every request is answered or fails in the end, and the continuation of
\* handleSearch then runs
SpecLifeFair == SpecLife /\ WF_vars(Complete)

\* ------------------------------------------------- the session and routes
\* the route shown for a target route: ProtectedRoute sends a signed-out
\* visitor of /search to /login, Login sends a signed-in user to "/", and "/"
\* sends a signed-out visitor to /guest-search
Route(target, ld, u) ==
  IF target = "auth" THEN (IF ~ld /\ u = "null" THEN "login" ELSE "auth")
  ELSE IF target = "login" THEN (IF u # "null" THEN "home" ELSE "login")
  ELSE IF target = "home" THEN (IF u # "null" THEN "home" ELSE "guest")
  ELSE "guest"

\* what the search view of route v shows, nothing while ProtectedRoute holds
\* the Search view back
ViewDom(v, ld, u, q, res, l) ==
  IF SearchMounted(v, ld, u) THEN Render(v, q, res, l) ELSE NoSearchView

\* the search view after a change of route or session: a view that stays
\* mounted keeps its state, a view that mounts starts from its initial state,
\* and the responses of an unmounted view reach no state any more
SearchViewAfter(v, ld, u) ==
  IF v = view /\ SearchMounted(view, authLoading, user) /\ SearchMounted(v, ld, u)
  THEN UNCHANGED searchVars
  ELSE /\ query' = << >>
       /\ results' = Null
       /\ loading' = FALSE
       /\ pending' = << >>
       /\ received' = Null
       /\ dom' = ViewDom(v, ld, u, << >>, Null, FALSE)
       /\ UNCHANGED toasts

\* the application opened on a route, with or without a token left in
\* localStorage by an earlier session; the effect of AuthProvider has run
InitAuth ==
  /\ token \in {"null", "T0"}
  /\ user = "null"
  /\ authLoading = (token # "null")
  /\ authPending = IF token # "null" THEN {[kind |-> "me", token |-> token]} ELSE {}
  /\ logins = 0
  /\ \E target \in {"guest", "auth", "login"} : view = Route(target, authLoading, user)
  /\ query = << >>
  /\ results = Null
  /\ loading = FALSE
  /\ pending = << >>
  /\ toasts = 0
  /\ received = Null
  /\ dom = ViewDom(view, authLoading, user, << >>, Null, FALSE)
  /\ InitHistory
  /\ InitNoLists

\* fetchUserProfile after the await: setUser(response.data), then finally
FetchUserProfileResolved(r) ==
  /\ r \in authPending /\ r.kind = "me"
  /\ user' = "alice"
  /\ authLoading' = FALSE
  /\ authPending' = authPending \ {r}
  /\ view' = Route(view, FALSE, "alice")
  /\ SearchViewAfter(view', FALSE, "alice")
  /\ UNCHANGED <<token, logins>>

\* fetchUserProfile in the catch block: localStorage.removeItem("token")
FetchUserProfileRejected(r) ==
  /\ r \in authPending /\ r.kind = "me"
  /\ token' = "null"
  /\ authLoading' = FALSE
  /\ authPending' = authPending \ {r}
  /\ view' = Route(view, FALSE, user)
  /\ SearchViewAfter(view', FALSE, user)
  /\ UNCHANGED <<user, logins>>

\* Login.handleSubmit and login up to the await of POST /login; the button of
\* the form is disabled while a login runs
LoginSubmit ==
  /\ view = "login"
  /\ \A r \in authPending : r.kind = "me"
  /\ logins < MaxLogins
  /\ logins' = logins + 1
  /\ authPending' = authPending \cup {[kind |-> "login", token |-> "null"]}
  /\ UNCHANGED <<view, searchVars, token, user, authLoading>>

\* login after POST /login: localStorage.setItem, then GET /me is sent
LoginPostResolved(r) ==
  /\ r \in authPending /\ r.kind = "login"
  /\ token' = "T1"
  /\ authPending' = (authPending \ {r}) \cup {[kind |-> "loginMe", token |-> "T1"]}
  /\ UNCHANGED <<view, searchVars, user, authLoading, logins>>

\* login in the catch block after POST /login failed
LoginPostRejected(r) ==
  /\ r \in authPending /\ r.kind = "login"
  /\ authPending' = authPending \ {r}
  /\ UNCHANGED <<view, searchVars, token, user, authLoading, logins>>

\* login after GET /me: setUser, success, and Login navigates to "/"
LoginMeResolved(r) ==
  /\ r \in authPending /\ r.kind = "loginMe"
  /\ user' = "alice"
  /\ authPending' = authPending \ {r}
  /\ view' = Route("home", authLoading, "alice")
  /\ SearchViewAfter(view', authLoading, "alice")
  /\ UNCHANGED <<token, authLoading, logins>>

\* login in the catch block after GET /me failed
LoginMeRejected(r) ==
  /\ r \in authPending /\ r.kind = "loginMe"
  /\ authPending' = authPending \ {r}
  /\ UNCHANGED <<view, searchVars, token, user, authLoading, logins>>

\* Navigation.handleLogout: logout(), then navigate("/login")
Logout ==
  /\ user # "null"
  /\ token' = "null"
  /\ user' = "null"
  /\ view' = Route("login", authLoading, "null")
  /\ SearchViewAfter(view', authLoading, "null")
  /\ UNCHANGED <<authLoading, authPending, logins>>

\* a link of the navigation bar
Navigate(target) ==
  /\ Route(target, authLoading, user) # view
  /\ view' = Route(target, authLoading, user)
  /\ SearchViewAfter(view', authLoading, user)
  /\ UNCHANGED authVars

NextAuth ==
  \/ \E r \in authPending : FetchUserProfileResolved(r) /\ UNCHANGED <<histVars, listVars>>
  \/ \E r \in authPending : FetchUserProfileRejected(r) /\ UNCHANGED <<histVars, listVars>>
  \/ LoginSubmit /\ UNCHANGED <<histVars, listVars>>
  \/ \E r \in authPending : LoginPostResolved(r) /\ UNCHANGED <<histVars, listVars>>
  \/ \E r \in authPending : LoginPostRejected(r) /\ UNCHANGED <<histVars, listVars>>
  \/ \E r \in authPending : LoginMeResolved(r) /\ UNCHANGED <<histVars, listVars>>
  \/ \E r \in authPending : LoginMeRejected(r) /\ UNCHANGED <<histVars, listVars>>
  \/ Logout /\ UNCHANGED <<histVars, listVars>>
  \/ \E target \in {"guest", "auth", "login", "home"} :
       Navigate(target) /\ UNCHANGED <<histVars, listVars>>
  \/ \E q \in Queries : SetQuery(q) /\ UNCHANGED <<histVars, listVars>>
  \/ HandleSearch /\ UNCHANGED <<histVars, listVars>>
  \/ \E i \in 1..Len(pending) : \E data \in SamplePayloads :
       SearchResolved(i, data) /\ UNCHANGED <<histVars, listVars>>
  \/ \E i \in 1..Len(pending) : SearchRejected(i) /\ UNCHANGED <<histVars, listVars>>

SpecAuth == InitAuth /\ [][NextAuth]_vars

\* ------------------------------------------------ the shopping lists view
\* the names typed into the form: empty, blank, and a name
ListNames == {<< >>, <<" ">>, <<"n">>}

\* the ids of the lists of the user when the view opens
InitialListIds == 1..MaxInitLists

\* the id the store gives the next created list
NewListId == MaxInitLists + creates + 1

\* the body of GET /shopping-lists: the lists of the user, oldest first
ListResponse(ids) ==
  LET RECURSIVE From(_)
      From(n) == IF n > MaxInitLists + MaxCreates + 1 THEN << >>
                 ELSE IF n \in ids THEN <<n>> \o From(n + 1) ELSE From(n + 1)
  IN From(1)

\* lists.filter(list => list.id !== listId)
FilterOut(arr, listId) ==
  LET Keeps(x) == x # listId IN SelectSeq(arr, Keeps)

\* a request of the view on its way: what it is, the list it names, the
\* value of `lists` in the closure of the handler that sent it, how far the
\* store has got with it and the body of its response
ListRequest(kind, listId, closure) ==
  [kind |-> kind, id |-> listId, lists |-> closure, phase |-> "sent", data |-> << >>]

\* the requests with request i answered by the store
Answered(i, phase, data) ==
  [listsPending EXCEPT ![i] = [@ EXCEPT !.phase = phase, !.data = data]]

\* the view opened by a signed-in user: useState initial values, and the
\* effect has called fetchLists
InitLists ==
  /\ view = "lists"
  /\ token = "T0"
  /\ user = "alice"
  /\ authLoading = FALSE
  /\ authPending = {}
  /\ logins = 0
  /\ InitSearch
  /\ InitHistory
  /\ server \in SUBSET InitialListIds
  /\ lists = << >>
  /\ listsLoading = TRUE
  /\ listName = << >>
  /\ showCreateForm = FALSE
  /\ listToast = "none"
  /\ listsPending = << ListRequest("fetch", 0, << >>) >>
  /\ creates = 0
  /\ deletes = 0
  /\ fetchFailed = FALSE

\* the store answers GET /shopping-lists
StoreLists(i) ==
  /\ listsPending[i].kind = "fetch" /\ listsPending[i].phase = "sent"
  /\ \/ listsPending' = Answered(i, "ok", ListResponse(server))
     \/ listsPending' = Answered(i, "failed", << >>)
  /\ UNCHANGED <<server, lists, listsLoading, listName, showCreateForm,
                 listToast, creates, deletes, fetchFailed>>

\* the store answers POST /shopping-lists
StoreCreate(i) ==
  /\ listsPending[i].kind = "create" /\ listsPending[i].phase = "sent"
  /\ \/ /\ listsPending' = Answered(i, "ok", << >>)
        /\ server' = server \cup {listsPending[i].id}
     \/ /\ listsPending' = Answered(i, "failed", << >>)
        /\ UNCHANGED server
  /\ UNCHANGED <<lists, listsLoading, listName, showCreateForm, listToast,
                 creates, deletes, fetchFailed>>

\* the store answers DELETE /shopping-lists/:id; a list that is not there
\* cannot be deleted
StoreDelete(i) ==
  /\ listsPending[i].kind = "delete" /\ listsPending[i].phase = "sent"
  /\ \/ /\ listsPending[i].id \in server
        /\ listsPending' = Answered(i, "ok", << >>)
        /\ server' = server \ {listsPending[i].id}
     \/ /\ listsPending' = Answered(i, "failed", << >>)
        /\ UNCHANGED server
  /\ UNCHANGED <<lists, listsLoading, listName, showCreateForm, listToast,
                 creates, deletes, fetchFailed>>

\* fetchLists after the await: setLists(response.data), then finally
FetchListsResolved(i) ==
  /\ listsPending[i].kind = "fetch" /\ listsPending[i].phase = "ok"
  /\ lists' = listsPending[i].data
  /\ listsLoading' = FALSE
  /\ listsPending' = RemoveAt(listsPending, i)
  /\ UNCHANGED <<server, listName, showCreateForm, listToast, creates, deletes,
                 fetchFailed>>

\* fetchLists in the catch block, then finally
FetchListsRejected(i) ==
  /\ listsPending[i].kind = "fetch" /\ listsPending[i].phase = "failed"
  /\ listToast' = "Error loading shopping lists"
  /\ listsLoading' = FALSE
  /\ fetchFailed' = TRUE
  /\ listsPending' = RemoveAt(listsPending, i)
  /\ UNCHANGED <<server, lists, listName, showCreateForm, creates, deletes>>

\* the button that shows and hides the form
ToggleCreateForm ==
  /\ showCreateForm' = ~showCreateForm
  /\ UNCHANGED <<server, lists, listsLoading, listName, listToast, listsPending,
                 creates, deletes, fetchFailed>>

\* onChange of the name input
SetListName(n) ==
  /\ showCreateForm
  /\ listName' = n
  /\ UNCHANGED <<server, lists, listsLoading, showCreateForm, listToast,
                 listsPending, creates, deletes, fetchFailed>>

\* handleCreateList up to the await of POST /shopping-lists
HandleCreateList ==
  /\ showCreateForm
  /\ Trim(listName) # << >>
  /\ creates < MaxCreates
  /\ creates' = creates + 1
  /\ listsPending' = Append(listsPending, ListRequest("create", NewListId, lists))
  /\ UNCHANGED <<server, lists, listsLoading, listName, showCreateForm,
                 listToast, deletes, fetchFailed>>

\* handleCreateList after the await: the form is cleared and fetchLists is
\* called, which runs up to its own await
CreateListResolved(i) ==
  /\ listsPending[i].kind = "create" /\ listsPending[i].phase = "ok"
  /\ listName' = << >>
  /\ showCreateForm' = FALSE
  /\ listToast' = "Shopping list created"
  /\ listsLoading' = TRUE
  /\ listsPending' = Append(RemoveAt(listsPending, i), ListRequest("fetch", 0, << >>))
  /\ UNCHANGED <<server, lists, creates, deletes, fetchFailed>>

\* handleCreateList in the catch block
CreateListRejected(i) ==
  /\ listsPending[i].kind = "create" /\ listsPending[i].phase = "failed"
  /\ listToast' = "Error creating shopping list"
  /\ listsPending' = RemoveAt(listsPending, i)
  /\ UNCHANGED <<server, lists, listsLoading, listName, showCreateForm,
                 creates, deletes, fetchFailed>>

\* handleDeleteList of a displayed list, confirmed, up to the await of
\* DELETE; the cards are on screen only while loading is false
HandleDeleteList(listId) ==
  /\ ~listsLoading
  /\ \E k \in 1..Len(lists) : lists[k] = listId
  /\ deletes < MaxDeletes
  /\ deletes' = deletes + 1
  /\ listsPending' = Append(listsPending, ListRequest("delete", listId, lists))
  /\ UNCHANGED <<server, lists, listsLoading, listName, showCreateForm,
                 listToast, creates, fetchFailed>>

\* handleDeleteList after the await: setLists(lists.filter(...)) with the
\* `lists` of the render the button was clicked in
DeleteListResolved(i) ==
  /\ listsPending[i].kind = "delete" /\ listsPending[i].phase = "ok"
  /\ listToast' = "Shopping list deleted"
  /\ lists' = FilterOut(listsPending[i].lists, listsPending[i].id)
  /\ listsPending' = RemoveAt(listsPending, i)
  /\ UNCHANGED <<server, listsLoading, listName, showCreateForm, creates,
                 deletes, fetchFailed>>

\* handleDeleteList in the catch block
DeleteListRejected(i) ==
  /\ listsPending[i].kind = "delete" /\ listsPending[i].phase = "failed"
  /\ listToast' = "Error deleting shopping list"
  /\ listsPending' = RemoveAt(listsPending, i)
  /\ UNCHANGED <<server, lists, listsLoading, listName, showCreateForm,
                 creates, deletes, fetchFailed>>

NextLists ==
  \/ \E i \in 1..Len(listsPending) : StoreLists(i) /\ UNCHANGED otherVars
  \/ \E i \in 1..Len(listsPending) : StoreCreate(i) /\ UNCHANGED otherVars
  \/ \E i \in 1..Len(listsPending) : StoreDelete(i) /\ UNCHANGED otherVars
  \/ \E i \in 1..Len(listsPending) : FetchListsResolved(i) /\ UNCHANGED otherVars
  \/ \E i \in 1..Len(listsPending) : FetchListsRejected(i) /\ UNCHANGED otherVars
  \/ ToggleCreateForm /\ UNCHANGED otherVars
  \/ \E n \in ListNames : SetListName(n) /\ UNCHANGED otherVars
  \/ HandleCreateList /\ UNCHANGED otherVars
  \/ \E i \in 1..Len(listsPending) : CreateListResolved(i) /\ UNCHANGED otherVars
  \/ \E i \in 1..Len(listsPending) : CreateListRejected(i) /\ UNCHANGED otherVars
  \/ \E listId \in 1..(MaxInitLists + MaxCreates) :
       HandleDeleteList(listId) /\ UNCHANGED otherVars
  \/ \E i \in 1..Len(listsPending) : DeleteListResolved(i) /\ UNCHANGED otherVars
  \/ \E i \in 1..Len(listsPending) : DeleteListRejected(i) /\ UNCHANGED otherVars

SpecLists == InitLists /\ [][NextLists]_vars

TypeOK ==
  /\ view \in {"guest", "auth", "login", "home", "lists"}
  /\ query \in Queries
  /\ loading \in BOOLEAN
  /\ toasts \in 0..MaxToasts
  /\ token \in {"null", "T0", "T1"}
  /\ user \in {"null", "alice"}
  /\ authLoading \in BOOLEAN

\* ------------------------------------------------------------ properties
Views == {"guest", "auth"}

\* the observation list of a product of the stored result set
Observations(pid) == results.prices[pid]

\* the product has a non-empty observation list in the stored result set
HasObservations(pid) == HasPrices(results, pid) /\ Len(Observations(pid)) > 0

\* the index of an observation in the list (stores are distinct)
IndexOf(obs, prices) == CHOOSE i \in 1..Len(prices) : prices[i] = obs

\* the prices of the list are all equal to or above p
IsMinimumOf(p, prices) == \A i \in 1..Len(prices) : p.v <= prices[i].price.v

\* C1: for a non-empty observation list, getLowestPrice of either view returns
\* an element of the list whose price is at most the price of every element.
C1_LowestIsMinimum ==
  \A v \in Views : \A pid \in ProductIds :
    HasObservations(pid) =>
      LET low == getLowestPrice(v, results, pid) IN
        /\ low # Null
        /\ \E i \in 1..Len(Observations(pid)) : Observations(pid)[i] = low
        /\ IsMinimumOf(low.price, Observations(pid))

\* a stored list whose first observation is not the cheapest, the cheaper one
\* shown on the card
C1_Witness ==
  /\ results # Null
  /\ \E i \in 1..Len(dom.cards) :
       LET pid == results.products[i].id IN
         /\ HasObservations(pid)
         /\ Len(Observations(pid)) >= 2
         /\ getLowestPrice(view, results, pid).price.v < Observations(pid)[1].price.v
         /\ dom.cards[i].bestPrice # Null
         /\ dom.cards[i].bestPrice.store # Observations(pid)[1].store

\* C2: when several observations share the minimum price, getLowestPrice
\* returns the one with the smallest index.
C2_FirstOfTheCheapest ==
  \A v \in Views : \A pid \in ProductIds :
    HasObservations(pid) =>
      LET prices == Observations(pid)
          low == getLowestPrice(v, results, pid)
      IN \A i \in 1..Len(prices) :
           IsMinimumOf(prices[i].price, prices) =>
             /\ \E j \in 1..Len(prices) : prices[j] = low
             /\ IndexOf(low, prices) <= i

\* a stored list where the minimum price occurs twice, not at the start
C2_Witness ==
  \E pid \in ProductIds :
    /\ HasObservations(pid)
    /\ \E i, j \in 2..Len(Observations(pid)) :
         /\ i < j
         /\ Observations(pid)[i].price = Observations(pid)[j].price
         /\ IsMinimumOf(Observations(pid)[i].price, Observations(pid))
         /\ Observations(pid)[1].price.v > Observations(pid)[i].price.v
         /\ getLowestPrice(view, results, pid) = Observations(pid)[i]

\* C3: the first element of the series of prepareChartData, the one flagged
\* green, is the observation getLowestPrice returns for the same input.
C3_SeriesHeadIsLowest ==
  \A v \in Views : \A pid \in ProductIds :
    HasObservations(pid) =>
      LET low == getLowestPrice(v, results, pid)
          chartData == prepareChartData(v, results, pid)
      IN /\ low # Null /\ chartData # Null
         /\ Len(chartData.labels) > 0
         /\ chartData.labels[1] = low.store
         /\ chartData.data[1] = low.price
         /\ chartData.backgroundColor[1] = "green"
         /\ \A i \in 2..Len(chartData.labels) : chartData.backgroundColor[i] # "green"

\* a rendered card of a product whose minimum price is tied, with the best
\* price line and the first bar naming the same store
C3_Witness ==
  /\ results # Null
  /\ \E k \in 1..Len(dom.cards) :
       LET pid == results.products[k].id IN
         /\ HasObservations(pid)
         /\ \E i, j \in 1..Len(Observations(pid)) :
              /\ i # j
              /\ Observations(pid)[i].price = Observations(pid)[j].price
              /\ IsMinimumOf(Observations(pid)[i].price, Observations(pid))
         /\ \E i \in 1..Len(Observations(pid)) :
              ~IsMinimumOf(Observations(pid)[i].price, Observations(pid))
         /\ dom.cards[k].bestPrice.store = dom.cards[k].chart.labels[1]

\* C4: the series of prepareChartData is sorted non-decreasing by price and is
\* a permutation of the input, labels[i] and data[i] from one observation.
C4_SeriesSortedPermutation ==
  \A v \in Views : \A pid \in ProductIds :
    HasPrices(results, pid) =>
      LET prices == Observations(pid)
          chartData == prepareChartData(v, results, pid)
          n == Len(prices)
      IN /\ chartData # Null
         /\ Len(chartData.labels) = n
         /\ Len(chartData.data) = n
         /\ \A i \in 1..n : \A j \in 1..n :
              i <= j => chartData.data[i].v <= chartData.data[j].v
         /\ \E perm \in [1..n -> 1..n] :
              /\ \A i, j \in 1..n : i # j => perm[i] # perm[j]
              /\ \A i \in 1..n :
                   /\ chartData.labels[i] = prices[perm[i]].store
                   /\ chartData.data[i] = prices[perm[i]].price

\* a rendered chart of three observations that arrived in descending order
C4_Witness ==
  /\ results # Null
  /\ \E k \in 1..Len(dom.cards) :
       LET pid == results.products[k].id IN
         /\ HasPrices(results, pid)
         /\ Len(Observations(pid)) >= 3
         /\ Observations(pid)[1].price.v > Observations(pid)[Len(Observations(pid))].price.v
         /\ dom.cards[k].chart # Null
         /\ dom.cards[k].chart.labels[1] # Observations(pid)[1].store
         /\ Len(dom.cards[k].chart.data) = Len(Observations(pid))

\* the place of a store in the labels of a chart
PlaceOf(store, labels) == CHOOSE i \in 1..Len(labels) : labels[i] = store

\* C5: the sort of prepareChartData is stable: of two observations of equal
\* price, the one first in the input is first in the series.
C5_SortIsStable ==
  \A v \in Views : \A pid \in ProductIds :
    HasPrices(results, pid) =>
      LET prices == Observations(pid)
          labels == prepareChartData(v, results, pid).labels
      IN \A i, j \in 1..Len(prices) :
           (i < j /\ prices[i].price = prices[j].price) =>
             /\ \E a \in 1..Len(labels) : labels[a] = prices[i].store
             /\ \E b \in 1..Len(labels) : labels[b] = prices[j].store
             /\ PlaceOf(prices[i].store, labels) < PlaceOf(prices[j].store, labels)

\* the list [{A,1},{B,1},{C,0}] rendered as the chart C, A, B
C5_Witness ==
  /\ results # Null
  /\ \E k \in 1..Len(dom.cards) :
       LET pid == results.products[k].id IN
         /\ HasPrices(results, pid)
         /\ Observations(pid) = << [store |-> "A", price |-> Num(1)],
                                   [store |-> "B", price |-> Num(1)],
                                   [store |-> "C", price |-> Num(0)] >>
         /\ dom.cards[k].chart # Null
         /\ dom.cards[k].chart.labels = << "C", "A", "B" >>

\* C6: for an empty observation list both helpers return null and the card
\* shows neither a best price nor a chart.
C6_EmptyListIsAbsent ==
  /\ \A v \in Views : \A pid \in ProductIds :
       (HasPrices(results, pid) /\ Len(Observations(pid)) = 0) =>
         /\ getLowestPrice(v, results, pid) = Null
         /\ prepareChartData(v, results, pid) = Null
  /\ results # Null =>
       \A k \in 1..Len(dom.cards) :
         LET pid == results.products[k].id IN
           (HasPrices(results, pid) /\ Len(Observations(pid)) = 0) =>
             /\ dom.cards[k].bestPrice = Null
             /\ dom.cards[k].chart = Null

\* C7: a product without an entry in the price mapping, or of a result set
\* without price mapping, is rendered with no best price and no chart, and
\* every product that has observations with its best price and its chart.
C7_SparseDataRendered ==
  results # Null =>
    \A k \in 1..Len(dom.cards) :
      LET pid == results.products[k].id
          card == dom.cards[k]
      IN /\ ~HasPrices(results, pid) =>
              (card.bestPrice = Null /\ card.chart = Null)
         /\ HasObservations(pid) =>
              /\ card.bestPrice # Null
              /\ card.bestPrice.store = getLowestPrice(view, results, pid).store
              /\ card.chart # Null
              /\ Len(card.chart.data) = Len(Observations(pid))

\* a rendered result set with a priced product and a product without entry
C7_Witness ==
  /\ results # Null
  /\ Len(dom.cards) >= 2
  /\ \E k \in 1..Len(dom.cards) :
       /\ ~HasPrices(results, results.products[k].id)
       /\ dom.cards[k].bestPrice = Null
  /\ \E k \in 1..Len(dom.cards) :
       /\ HasObservations(results.products[k].id)
       /\ dom.cards[k].chart # Null

\* C8: the rendered cards are the products of the result set in the order of
\* the response, whatever products have price data.
C8_CardsInResponseOrder ==
  /\ results = Null => dom.cards = << >>
  /\ results # Null =>
       /\ Len(dom.cards) = Len(results.products)
       /\ \A k \in 1..Len(dom.cards) : dom.cards[k].key = results.products[k].id

\* two rendered cards, the first of a product without price data and the
\* second of a product with observations
C8_Witness ==
  /\ results # Null
  /\ Len(results.products) = 2
  /\ ~HasObservations(results.products[1].id)
  /\ HasObservations(results.products[2].id)
  /\ Len(dom.cards) = 2
  /\ dom.cards[1].key = results.products[1].id
  /\ dom.cards[2].bestPrice # Null

\* some observation of the product costs 0, the least a valid price can be
HasZeroPrice(pid) ==
  \E i \in 1..Len(Observations(pid)) : Observations(pid)[i].price = Num(0)

\* C9: a product with no observations is rendered without any price (no best
\* price line, no price in a chart), and a product whose cheapest observation
\* costs 0 is rendered with the best price 0.00 and a chart.
C9_NoDataIsNotZeroPrice ==
  results # Null =>
    \A k \in 1..Len(dom.cards) :
      LET pid == results.products[k].id
          card == dom.cards[k]
      IN /\ ~HasObservations(pid) =>
              /\ card.bestPrice = Null
              /\ card.chart # Null => card.chart.data = << >>
         /\ (HasObservations(pid) /\ HasZeroPrice(pid)) =>
              /\ card.bestPrice # Null
              /\ card.bestPrice.price = [negative |-> FALSE, pounds |-> 0, pence |-> 0]
              /\ card.chart # Null
              /\ card.chart.data[1] = Num(0)

\* a rendered result set with a product without observations and a product
\* whose cheapest observation costs 0
C9_Witness ==
  /\ results # Null
  /\ \E k \in 1..Len(dom.cards) :
       /\ ~HasObservations(results.products[k].id)
       /\ dom.cards[k].bestPrice = Null
  /\ \E k \in 1..Len(dom.cards) :
       /\ HasObservations(results.products[k].id)
       /\ HasZeroPrice(results.products[k].id)
       /\ dom.cards[k].bestPrice # Null
       /\ dom.cards[k].bestPrice.price.pence = 0

\* a price the data model allows: a number that is not negative
IsValidPrice(x) == IsNumber(x) /\ x.v >= 0

\* C10: an observation whose price is not a non-negative number is excluded
\* from the result of getLowestPrice and from the series of prepareChartData.
C10_MalformedPriceExcluded ==
  \A v \in Views : \A pid \in ProductIds :
    HasPrices(results, pid) =>
      LET low == getLowestPrice(v, results, pid)
          chartData == prepareChartData(v, results, pid)
      IN /\ low # Null => IsValidPrice(low.price)
         /\ chartData # Null =>
              \A i \in 1..Len(chartData.data) : IsValidPrice(chartData.data[i])

\* C11: getLowestPrice and prepareChartData have no side effects: after any
\* number of renders the stored result set is the response as it was
\* received, every observation list in its original order.
C11_ResultsNotMutated ==
  results # Null => results = received

\* a rendered result set whose chart starts with another store than the
\* stored observation list, the list still in the order of the response
C11_Witness ==
  /\ results # Null
  /\ results = received
  /\ \E k \in 1..Len(dom.cards) :
       LET pid == results.products[k].id IN
         /\ HasObservations(pid)
         /\ dom.cards[k].chart # Null
         /\ dom.cards[k].chart.labels[1] # received.prices[pid][1].store
         /\ received.prices[pid][1].price.v
              > received.prices[pid][Len(received.prices[pid])].price.v

C15_NoResultsWhileLoading ==
  /\ loading => results = Null
  /\ dom.spinner => (dom.cards = << >> /\ ~dom.resultsShown /\ ~dom.noProducts)

\* a search submitted while the results of an earlier one were on screen
C15_Witness ==
  /\ loading
  /\ dom.spinner
  /\ stored >= 1
  /\ submitted >= 2
  /\ results = Null

\* C16: at most one search request is outstanding in a search view, and one
\* is outstanding exactly while loading, when the submit button is disabled.
C16_OneOutstandingRequest ==
  /\ Len(pending) <= 1
  /\ Len(pending) = 1 <=> loading
  /\ loading => dom.submitDisabled

\* the second request of a view, outstanding alone
C16_Witness ==
  /\ submitted >= 2
  /\ Len(pending) = 1
  /\ pendingIds = << 2 >>
  /\ loading

\* C17: idle -> loading -> (results | error): loading starts only by a
\* submission with a non-blank query, ends only by the completion of the
\* request, with a response stored or an error notified, and always ends.
C17_Lifecycle ==
  /\ [][(~loading /\ loading') =>
          (/\ Trim(query) # << >>
           /\ Len(pending') = Len(pending) + 1
           /\ results' = Null)]_vars
  /\ [][(loading /\ ~loading') =>
          (/\ Len(pending') = Len(pending) - 1
           /\ \/ (results' # Null /\ toasts' = toasts)
              \/ (results' = Null /\ toasts' = toasts + 1))]_vars
  /\ (loading ~> ~loading)

\* a view that went through loading to results, then through loading to error
C17_Witness ==
  /\ ~loading
  /\ submitted >= 2
  /\ stored >= 1
  /\ toasts >= 1
  /\ pending = << >>
  /\ ~dom.spinner

\* C18: a failed search request gives exactly one error notification and
\* leaves results = null and loading = false, nothing of an earlier search
\* on screen.
C18_FailureNotifiedOnce ==
  /\ [][toasts' # toasts =>
          (/\ toasts' = toasts + 1
           /\ Len(pending') = Len(pending) - 1
           /\ results' = Null
           /\ ~loading'
           /\ dom'.cards = << >>
           /\ ~dom'.resultsShown)]_vars
  /\ [][(Len(pending') < Len(pending) /\ stored' = stored) =>
          toasts' = toasts + 1]_vars

\* a failed search after a successful one
C18_Witness ==
  /\ toasts = 1
  /\ stored >= 1
  /\ storedFrom = 0
  /\ results = Null
  /\ ~loading
  /\ dom.cards = << >>

\* C19: the guest view and the Search view compute the same lowest price,
\* the same series and the same cards for every result set.
C19_ViewsAgree ==
  /\ \A pid \in ProductIds :
       /\ GuestSearch_getLowestPrice(results, pid) = Search_getLowestPrice(results, pid)
       /\ GuestSearch_prepareChartData(results, pid)
            = Search_prepareChartData(results, pid)
  /\ GuestSearch_render(query, results, loading) = Search_render(query, results, loading)
  /\ \A i \in 1..Len(pending) :
       /\ pending[i].endpoint = (IF view = "guest" THEN "/guest-search" ELSE "/search")
       /\ pending[i].bearer = "no header" <=> view = "guest"

\* the Search view showing two cards, one with a chart of several prices
C19_Witness ==
  /\ view = "auth"
  /\ results # Null
  /\ Len(dom.cards) = 2
  /\ dom.cards = GuestSearch_cards(results)
  /\ \E k \in 1..2 :
       /\ dom.cards[k].chart # Null
       /\ Len(dom.cards[k].chart.data) >= 2
       /\ dom.cards[k].chart.data[1] # dom.cards[k].chart.data[2]

\* C13: without a credential only the guest search is usable: every request
\* to the authenticated search endpoint carries a bearer token, and the Search
\* view is never on screen while the user is null.
C13_SearchNeedsCredential ==
  /\ \A i \in 1..Len(pending) :
       pending[i].endpoint = "/search" => pending[i].bearer # "null"
  /\ (view = "auth" /\ dom # NoSearchView) => user # "null"

\* C20: whenever a user is signed in, a token is stored in localStorage, for
\* every interleaving of the profile fetch started on mount, login and logout.
C20_SignedInHasToken ==
  user # "null" => token # "null"

\* C21: a failed login leaves the session unchanged: in every state with no
\* auth request in flight and user null, no token is stored in localStorage,
\* also when POST /login succeeded and the GET /me after it failed.
C21_FailedLoginLeavesNoToken ==
  (authPending = {} /\ user = "null") => token = "null"

\* C24: the query shown in the heading 'Results for "<query>"' is the query
\* sent in the request whose response is stored in results; editing the input
\* afterwards without submitting does not change it. The request carries
\* query.trim(), so the two are compared up to surrounding white space.
C24_HeadingShowsSentQuery ==
  dom.resultsShown => Trim(dom.resultsFor) = storedQuery

\* the ids of the lists on screen
Displayed == {lists[k] : k \in 1..Len(lists)}

\* C22: once every confirmed deletion has been answered, in any interleaving
\* of the requests and their responses, no deleted list is displayed and
\* every list that was not deleted still is; a failed deletion changes
\* nothing. Stated for a view in which no list was created and whose fetch
\* succeeded, so that the lists of the store are the ones fetched less the
\* ones deleted.
C22_DeletedListsGone ==
  (creates = 0 /\ ~fetchFailed /\ listsPending = << >>) => Displayed = server

\* C23: once a list has been created and every fetchLists has completed, the
\* created list is displayed: the response of an older fetchLists never
\* overwrites newer data. Stated for a view in which no fetch failed and no
\* deletion was asked for.
C23_CreatedListDisplayed ==
  (deletes = 0 /\ ~fetchFailed /\ listsPending = << >>)
    => (server \ InitialListIds) \subseteq Displayed

====
